---- MODULE Spec2Model ----
(***************************************************************************)
(* A model of scram's fault tree registry (src/src/fault_tree.cc) and of   *)
(* its report writer (src/src/reporter.cc).                                *)
(*                                                                         *)
(* The registry is one FaultTree object with the operations AddGate and    *)
(* GatherPrimaryEvents ("Finalize").  An assert that fails aborts the      *)
(* process; a dereference of a null pointer ends it as well.  A process    *)
(* that has ended takes no further step.                                   *)
(***************************************************************************)
EXTENDS Integers, Sequences, FiniteSets, TLC

VARIABLES
  top_event_id_,    \* FaultTree::top_event_id_
  top_event_,       \* FaultTree::top_event_ (NullGate until the first AddGate)
  inter_events_,    \* FaultTree::inter_events_, gate id -> gate
  primary_events_,  \* FaultTree::primary_events_, event id -> event kind
  lock_,            \* FaultTree::lock_
  tree_alive,       \* FALSE once an assert or a null dereference ended the run
  tree_last,        \* the last registry call: [op, gate, outcome]
  first_gate,       \* history: the gate of the first AddGate call
  later_gates,      \* history: the gates of the later AddGate calls
  called_ids,       \* history: the identifiers passed to AddGate so far
  accepted_ids,     \* history: the identifiers of the calls that returned
  finalize_called,  \* history: GatherPrimaryEvents has been called
  ids_distinct,     \* history: no identifier was passed to AddGate twice
  ncalls,           \* history: number of registry calls made
  tree_prev,        \* history: the registry's fields before the last call
  finalized_state,  \* history: the registry's fields after the first Finalize
  tree_budget,      \* the number of registry calls the run may make
  doc,              \* the xmlpp::Document: NullDoc or its root node
  rep_alive,        \* FALSE once an assert or a bad dereference ended the run
  rep_last,         \* the last reporter call and how it ended
  doc_prev,         \* history: the document before the last reporter call
  setups_ok,        \* history: number of SetupReport calls that returned
  sections,         \* history: the sections the writers put under results
  nrep,             \* history: number of reporter calls made
  fta_done,         \* history: the ReportFta calls that returned
  rep_budget        \* the number of reporter calls the run may make

tree_vars == <<top_event_id_, top_event_, inter_events_, primary_events_,
               lock_, tree_alive, tree_last, first_gate, later_gates,
               called_ids, accepted_ids, finalize_called, ids_distinct,
               ncalls, tree_prev, finalized_state, tree_budget>>

\* The registry's own fields, without the history.
tree_state == <<top_event_id_, top_event_, inter_events_, primary_events_,
                lock_>>

rep_vars == <<doc, rep_alive, rep_last, doc_prev, setups_ok, sections, nrep,
             fta_done, rep_budget>>

vars == <<tree_vars, rep_vars>>

-----------------------------------------------------------------------------
\* Bounds and input universes.

MaxCalls == 3

\* The calls of a run that finalizes a tree twice.
MaxTreeSeqCalls == 4

\* Identifiers given to gates; the empty string is a legal std::string.
GateIds == {"", "g1", "g2"}

\* Identifiers of the children of a gate.
ChildIds == {"e1", "g1"}

\* The dynamic type of a child: a Gate or a PrimaryEvent.
Kinds == {"gate", "primary"}

\* std::map<std::string, EventPtr>: every map from some child ids to events.
ChildMaps == UNION {[D -> Kinds] : D \in SUBSET ChildIds}

Gates == [id : GateIds, children : ChildMaps]

NullGate == [null |-> TRUE]

EmptyMap == [x \in {} |-> x]

\* std::string's operator< on the identifiers in use.
IdRank(s) ==
  CASE s = ""   -> 0
    [] s = "e1" -> 1
    [] s = "g1" -> 2
    [] s = "g2" -> 3

RECURSIVE SortedIds(_)
SortedIds(S) ==
  IF S = {} THEN <<>>
  ELSE LET m == CHOOSE x \in S : \A y \in S : IdRank(x) <= IdRank(y)
       IN <<m>> \o SortedIds(S \ {m})

\* Every order in which an unordered_map may enumerate the keys S.
RECURSIVE Orders(_)
Orders(S) ==
  IF S = {} THEN {<<>>}
  ELSE UNION {{<<x>> \o o : o \in Orders(S \ {x})} : x \in S}

-----------------------------------------------------------------------------
\* The record of a registry call: the operation, its argument, how it ended
\* ("ok", the thrown "Error" or "ValueError", a failed "assert", a "crash"),
\* and what held when it was made: Finalize had been called before, and the
\* argument's identifier was that of an accepted gate.
Last(op, gate, outcome) ==
  [op |-> op, gate |-> gate, outcome |-> outcome,
   after_finalize |-> finalize_called,
   dup |-> IF gate = NullGate THEN FALSE ELSE gate.id \in accepted_ids]

\* FaultTree::FaultTree

TreeInit ==
  /\ top_event_id_ = ""
  /\ top_event_ = NullGate
  /\ inter_events_ = EmptyMap
  /\ primary_events_ = EmptyMap
  /\ lock_ = FALSE
  /\ tree_alive = TRUE
  /\ tree_last = [op |-> "new", gate |-> NullGate, outcome |-> "ok",
                  after_finalize |-> FALSE, dup |-> FALSE]
  /\ first_gate = NullGate
  /\ later_gates = {}
  /\ called_ids = {}
  /\ accepted_ids = {}
  /\ finalize_called = FALSE
  /\ ids_distinct = TRUE
  /\ ncalls = 0
  /\ tree_prev = tree_state
  /\ finalized_state = tree_state
  /\ tree_budget \in {MaxCalls, MaxTreeSeqCalls}

\* History kept for every AddGate call, whatever its outcome.
NoteAddGate(gate) ==
  /\ first_gate' = IF ncalls = 0 \/ first_gate = NullGate
                   THEN gate ELSE first_gate
  /\ later_gates' = IF first_gate = NullGate THEN later_gates
                    ELSE later_gates \cup {gate}
  /\ ids_distinct' = (ids_distinct /\ gate.id \notin called_ids)
  /\ called_ids' = called_ids \cup {gate.id}
  /\ ncalls' = ncalls + 1
  /\ tree_prev' = tree_state
  /\ UNCHANGED <<finalize_called, finalized_state, tree_budget>>

\* AddGate without its test of the lock.
IsLockedNever == FALSE

\* fault_tree.cc:20
IsLocked == lock_

\* fault_tree.cc:22
NoTopYet == top_event_id_ = ""

\* fault_tree.cc:26
IsDoublyDefined(gate) ==
  gate.id \in DOMAIN inter_events_ \/ gate.id = top_event_id_

\* An AddGate that stores the gate before it looks for a second definition.
AddGateStoresFirst(gate) ==
  /\ tree_alive
  /\ UNCHANGED rep_vars
  /\ ncalls < tree_budget
  /\ NoteAddGate(gate)
  /\ IF IsLocked
     THEN /\ tree_last' = Last("AddGate", gate, "Error")
          /\ UNCHANGED <<tree_state, tree_alive>>
     ELSE IF NoTopYet
     THEN /\ top_event_' = gate
          /\ top_event_id_' = gate.id
          /\ tree_last' = Last("AddGate", gate, "ok")
          /\ UNCHANGED <<inter_events_, primary_events_, lock_, tree_alive>>
     ELSE /\ inter_events_' = IF gate.id \in DOMAIN inter_events_
                              THEN inter_events_
                              ELSE (gate.id :> gate) @@ inter_events_
          /\ tree_last' = Last("AddGate", gate,
                                IF IsDoublyDefined(gate) THEN "ValueError"
                                ELSE "ok")
          /\ UNCHANGED <<top_event_id_, top_event_, primary_events_, lock_,
                         tree_alive>>
  /\ accepted_ids' = IF tree_last'.outcome = "ok"
                     THEN accepted_ids \cup {gate.id} ELSE accepted_ids

\* FaultTree::AddGate
AddGate(gate) ==
  /\ tree_alive
  /\ UNCHANGED rep_vars
  /\ ncalls < tree_budget
  /\ NoteAddGate(gate)
  /\ IF IsLocked
     THEN /\ tree_last' = Last("AddGate", gate, "Error")
          /\ UNCHANGED <<tree_state, tree_alive>>
     ELSE IF NoTopYet
     THEN /\ top_event_' = gate
          /\ top_event_id_' = gate.id
          /\ tree_last' = Last("AddGate", gate, "ok")
          /\ UNCHANGED <<inter_events_, primary_events_, lock_, tree_alive>>
     ELSE IF IsDoublyDefined(gate)
     THEN /\ tree_last' = Last("AddGate", gate, "ValueError")
          /\ UNCHANGED <<tree_state, tree_alive>>
     ELSE /\ inter_events_' = (gate.id :> gate) @@ inter_events_
          /\ tree_last' = Last("AddGate", gate, "ok")
          /\ UNCHANGED <<top_event_id_, top_event_, primary_events_, lock_,
                         tree_alive>>
  /\ accepted_ids' = IF tree_last'.outcome = "ok"
                     THEN accepted_ids \cup {gate.id} ELSE accepted_ids

\* fault_tree.cc:50: is the child skipped as a gate of this tree?
IsRegisteredGate(id) == id \in DOMAIN inter_events_

\* fault_tree.cc:51-53: the dynamic cast to PrimaryEvent succeeds.
IsPrimaryEvent(kind) == kind = "primary"

\* A scan that takes an event that is already in the mapping as an error.
RECURSIVE ScanChildrenOnce(_, _, _, _)
ScanChildrenOnce(children, keys, i, acc) ==
  IF i > Len(keys) \/ ~acc.ok THEN acc
  ELSE LET id == keys[i]
       IN IF IsRegisteredGate(id)
          THEN ScanChildrenOnce(children, keys, i + 1, acc)
          ELSE IF ~IsPrimaryEvent(children[id]) \/ id \in DOMAIN acc.pe
          THEN [pe |-> acc.pe, ok |-> FALSE]
          ELSE ScanChildrenOnce(children, keys, i + 1,
                 [pe |-> (id :> children[id]) @@ acc.pe, ok |-> TRUE])

\* FaultTree::GetPrimaryEvents, the loop over the sorted children from
\* position i on.  acc is [pe, ok]: the primary-event mapping so far and
\* whether the assert has held.  std::map::insert keeps an existing entry.
RECURSIVE ScanChildren(_, _, _, _)
ScanChildren(children, keys, i, acc) ==
  IF i > Len(keys) \/ ~acc.ok THEN acc
  ELSE LET id == keys[i]
       IN IF IsRegisteredGate(id)
          THEN ScanChildren(children, keys, i + 1, acc)
          ELSE IF ~IsPrimaryEvent(children[id])
          THEN [pe |-> acc.pe, ok |-> FALSE]
          ELSE ScanChildren(children, keys, i + 1,
                 [pe |-> IF id \in DOMAIN acc.pe THEN acc.pe
                         ELSE (id :> children[id]) @@ acc.pe,
                  ok |-> TRUE])

\* FaultTree::GetPrimaryEvents
GetPrimaryEvents(gate, acc) ==
  ScanChildren(gate.children, SortedIds(DOMAIN gate.children), 1, acc)

\* fault_tree.cc:41-43: the loop over inter_events_ in the order `order`.
RECURSIVE ScanGates(_, _, _)
ScanGates(order, i, acc) ==
  IF i > Len(order) \/ ~acc.ok THEN acc
  ELSE ScanGates(order, i + 1, GetPrimaryEvents(inter_events_[order[i]], acc))

\* FaultTree::GatherPrimaryEvents
GatherPrimaryEvents ==
  /\ tree_alive
  /\ UNCHANGED rep_vars
  /\ ncalls < tree_budget
  /\ ncalls' = ncalls + 1
  /\ tree_prev' = tree_state
  /\ UNCHANGED tree_budget
  /\ lock_' = TRUE
  /\ finalize_called' = TRUE
  /\ UNCHANGED <<top_event_id_, top_event_, inter_events_, first_gate,
                 later_gates, called_ids, accepted_ids, ids_distinct>>
  /\ IF top_event_ = NullGate
     THEN \* gate->children() on a null shared_ptr
          /\ tree_alive' = FALSE
          /\ tree_last' = Last("Finalize", NullGate, "crash")
          /\ UNCHANGED primary_events_
     ELSE \E order \in Orders(DOMAIN inter_events_) :
            LET a0 == GetPrimaryEvents(top_event_,
                                       [pe |-> primary_events_, ok |-> TRUE])
                a1 == ScanGates(order, 1, a0)
            IN /\ primary_events_' = a1.pe
               /\ tree_alive' = a1.ok
               /\ tree_last' = Last("Finalize", NullGate,
                                     IF a1.ok THEN "ok" ELSE "assert")
  /\ finalized_state' = IF finalize_called THEN finalized_state
                         ELSE tree_state'

TreeNext ==
  \/ \E gate \in Gates : AddGate(gate)
  \/ GatherPrimaryEvents

-----------------------------------------------------------------------------
\* The report document.  An element is [name, attrs, kids, text]: attrs is
\* the sequence of <<name, value>> in the order they were set, kids the
\* children in document order.  A text node is named "#text".

NullDoc == [empty |-> TRUE]

Elem(name, attrs, kids) ==
  [name |-> name, attrs |-> attrs, kids |-> kids, text |-> ""]

\* xmlpp::Element::add_child_text on a new element.
TextNode(t) == [name |-> "#text", attrs |-> <<>>, kids |-> <<>>, text |-> t]

\* An element with one text child: add_child(name)->add_child_text(t).
TextElem(name, t) == Elem(name, <<>>, <<TextNode(t)>>)

\* A document some earlier code has filled: its root is not a report.
ForeignDoc == Elem("other", <<>>, <<>>)

\* boost::lexical_cast<std::string> of a number.  Doubles are drawn from
\* small integers.
LexicalCast(n) == ToString(n)

\* A new child put before the existing ones.
AddChildFirst(node, child) == [node EXCEPT !.kids = <<child>> \o @]

\* xmlpp::Element::add_child: the new child goes after the existing ones.
AddChild(node, child) == [node EXCEPT !.kids = Append(@, child)]

\* add_child on the element at the index path `path` below `node`.
RECURSIVE AddChildAt(_, _, _)
AddChildAt(node, path, child) ==
  IF path = <<>> THEN AddChild(node, child)
  ELSE [node EXCEPT !.kids[Head(path)] = AddChildAt(@, Tail(path), child)]

\* xmlpp::Node::find("./n1/n2/..."): the index paths, in document order, of
\* the elements reached from `node` through children named n1, n2, ...
RECURSIVE Find(_, _)
RECURSIVE FindFrom(_, _, _)
FindFrom(node, names, i) ==
  IF i > Len(node.kids) THEN <<>>
  ELSE (IF node.kids[i].name = Head(names)
        THEN LET sub == Find(node.kids[i], Tail(names))
             IN [k \in 1..Len(sub) |-> <<i>> \o sub[k]]
        ELSE <<>>)
       \o FindFrom(node, names, i + 1)

Find(node, names) ==
  IF names = <<>> THEN << <<>> >> ELSE FindFrom(node, names, 1)

\* The element at an index path.
RECURSIVE NodeAt(_, _)
NodeAt(node, path) ==
  IF path = <<>> THEN node ELSE NodeAt(node.kids[Head(path)], Tail(path))

-----------------------------------------------------------------------------
\* Inputs of the reporter.

MaxReportCalls == 3

\* The calls of a run that writes the sections of two fault trees.
MaxSeqCalls == 5

\* Settings: the four analysis flags, every combination; the limits fixed.
SettingsSet ==
  [ccf_analysis_ : BOOLEAN, probability_analysis_ : BOOLEAN,
   importance_analysis_ : BOOLEAN, uncertainty_analysis_ : BOOLEAN,
   limit_order_ : {20}, approx_ : {"rare"}, cut_off_ : {0},
   num_sums_ : {7}, trials_ : {1000}]

\* RiskAnalysis: the sizes of its containers.
RiskAnalysisSet ==
  [gates_ : {2}, basic_events_ : {3}, primary_events_ : {4},
   ccf_groups_ : {1}, fault_trees_ : {1}]

\* pt::second_clock::local_time(), as printed.
LocalTimes == {"2014-Oct-01 12:00:00"}

\* The orig_id of the primary events that may be orphans.
OrphanIds == {"P1", "P2"}

-----------------------------------------------------------------------------
\* The record of a reporter call.  outcome is "ok", the thrown "LogicError",
\* a failed "assert", or a "crash" (a null or past-the-end dereference).
RepLast(op, arg, outcome) ==
  [op |-> op, arg |-> arg, outcome |-> outcome, set_up |-> setups_ok > 0]

RepInit ==
  /\ doc \in {NullDoc, ForeignDoc}
  /\ rep_alive = TRUE
  /\ rep_last = [op |-> "new", arg |-> <<>>, outcome |-> "ok",
                 set_up |-> FALSE]
  /\ doc_prev = doc
  /\ setups_ok = 0
  /\ sections = <<>>
  /\ nrep = 0
  /\ fta_done = <<>>
  /\ rep_budget \in {MaxReportCalls, MaxSeqCalls}

\* Every reporter call: it is made by a live process, within the bound.
RepCall ==
  /\ rep_alive
  /\ nrep < rep_budget
  /\ nrep' = nrep + 1
  /\ UNCHANGED rep_budget
  /\ doc_prev' = doc
  /\ UNCHANGED tree_vars

\* version::core()
CoreVersion == "0.3.0"

\* reporter.cc:32-41: software, time and the empty performance log.
HeaderNodes(time) ==
  << Elem("software", << <<"name", "SCRAM">>, <<"version", CoreVersion>> >>, <<>>),
     TextElem("time", time),
     Elem("performance", <<>>, <<>>) >>

\* reporter.cc:43-53
McsNodes(settings) ==
  << Elem("calculated-quantity",
          << <<"name", "Minimal Cut Set Analysis">>,
             <<"definition",
               "Groups of events sufficient for a top event failure">> >>,
          <<>>),
     Elem("calculation-method", << <<"name", "MOCUS">> >>,
          << Elem("limits", <<>>,
               << TextElem("number-of-basic-events",
                           LexicalCast(settings.limit_order_)) >>) >>) >>

\* reporter.cc:55-61
CcfNodes(settings) ==
  IF settings.ccf_analysis_
  THEN << Elem("calculated-quantity",
               << <<"name", "CCF Analysis">>,
                  <<"definition",
                    "Failure of multiple elements due to a common cause">> >>,
               <<>>) >>
  ELSE <<>>

\* reporter.cc:63-78
ProbabilityNodes(settings) ==
  IF settings.probability_analysis_
  THEN << Elem("calculated-quantity",
               << <<"name", "Probability Analysis">>,
                  <<"definition",
                    "Quantitative analysis of failure probability">>,
                  <<"approximation", settings.approx_>> >>,
               <<>>),
          Elem("calculation-method", << <<"name", "Numerical Probability">> >>,
               << Elem("limits", <<>>,
                    << TextElem("cut-off", LexicalCast(settings.cut_off_)),
                       TextElem("number-of-sums",
                                LexicalCast(settings.num_sums_)) >>) >>) >>
  ELSE <<>>

\* reporter.cc:80-87
ImportanceNodes(settings) ==
  IF settings.importance_analysis_
  THEN << Elem("calculated-quantity",
               << <<"name", "Importance Analysis">>,
                  <<"definition",
                    "Quantitative analysis of contributions and importance of events.">> >>,
               <<>>) >>
  ELSE <<>>

\* The uncertainty block written whatever the flag says.
UncertaintyNodesAlways(settings) ==
  << Elem("calculated-quantity",
          << <<"name", "Uncertainty Analysis">>,
             <<"definition",
               "Calculation of uncertainties with the Monte Carlo method">> >>,
          <<>>),
     Elem("calculation-method", << <<"name", "Monte Carlo">> >>,
          << Elem("limits", <<>>,
               << TextElem("number-of-trials",
                           LexicalCast(settings.trials_)) >>) >>) >>

\* reporter.cc:89-103
UncertaintyNodes(settings) ==
  IF settings.uncertainty_analysis_
  THEN << Elem("calculated-quantity",
               << <<"name", "Uncertainty Analysis">>,
                  <<"definition",
                    "Calculation of uncertainties with the Monte Carlo method">> >>,
               <<>>),
          Elem("calculation-method", << <<"name", "Monte Carlo">> >>,
               << Elem("limits", <<>>,
                    << TextElem("number-of-trials",
                                LexicalCast(settings.trials_)) >>) >>) >>
  ELSE <<>>

\* A number below 10000 in four decimal places.
Pad4(n) ==
  IF n < 10 THEN "000" \o ToString(n)
  ELSE IF n < 100 THEN "00" \o ToString(n)
  ELSE IF n < 1000 THEN "0" \o ToString(n)
  ELSE ToString(n)

\* reporter.cc:112-113: the difference of two sizes is computed in the
\* 64-bit std::size_t and printed as one, so a smaller total wraps to
\* 2^64 - (b - a), where 2^64 = 18446744073709551616.  The digits are put
\* together in two parts; the sizes are below 1616.
SizeDifference(a, b) ==
  IF a >= b THEN LexicalCast(a - b)
  ELSE "1844674407370955" \o Pad4(1616 - (b - a))

\* reporter.cc:105-120
ModelFeatures(risk_an) ==
  Elem("model-features", <<>>,
    << TextElem("gates", LexicalCast(risk_an.gates_)),
       TextElem("basic-events", LexicalCast(risk_an.basic_events_)),
       TextElem("house-events",
                SizeDifference(risk_an.primary_events_,
                               risk_an.basic_events_)),
       TextElem("ccf-groups", LexicalCast(risk_an.ccf_groups_)),
       TextElem("fault-trees", LexicalCast(risk_an.fault_trees_)) >>)

\* reporter.cc:31-123: the document SetupReport builds.
SetupDocument(risk_an, settings, time) ==
  Elem("report", <<>>,
    << Elem("information", <<>>,
         HeaderNodes(time) \o McsNodes(settings) \o CcfNodes(settings)
           \o ProbabilityNodes(settings) \o ImportanceNodes(settings)
           \o UncertaintyNodes(settings) \o <<ModelFeatures(risk_an)>>),
       Elem("results", <<>>, <<>>) >>)

\* SetupReport without its test of the document.
IsPopulatedNever == FALSE

\* reporter.cc:28
IsPopulated == doc # NullDoc

\* Reporter::SetupReport
SetupReport(risk_an, settings, time) ==
  /\ RepCall
  /\ IF IsPopulated
     THEN /\ rep_last' = RepLast("SetupReport", settings, "LogicError")
          /\ UNCHANGED <<doc, setups_ok>>
     ELSE /\ doc' = SetupDocument(risk_an, settings, time)
          /\ setups_ok' = setups_ok + 1
          /\ rep_last' = RepLast("SetupReport", settings, "ok")
  /\ UNCHANGED <<rep_alive, sections, fta_done>>

\* A loop that leaves after the first orphan.
OrphanTextOfFirst(order, i) ==
  IF i > Len(order) THEN "" ELSE order[i] \o " "

\* reporter.cc:130-136: the warning text, the orphans taken in `order`.
RECURSIVE OrphanText(_, _)
OrphanText(order, i) ==
  IF i > Len(order) THEN ""
  ELSE order[i] \o " " \o OrphanText(order, i + 1)

\* Reporter::ReportOrphans.  The std::set of shared pointers is ordered by
\* address, so the orphans come in any order.
ReportOrphans(orphans) ==
  /\ RepCall
  /\ UNCHANGED <<setups_ok, sections, fta_done>>
  /\ IF orphans = {}
     THEN /\ rep_last' = RepLast("ReportOrphans", orphans, "assert")
          /\ rep_alive' = FALSE
          /\ UNCHANGED doc
     ELSE IF doc = NullDoc
     THEN \* root->find on the null root node
          /\ rep_last' = RepLast("ReportOrphans", orphans, "crash")
          /\ rep_alive' = FALSE
          /\ UNCHANGED doc
     ELSE LET inf == Find(doc, <<"information">>)
          IN IF Len(inf) # 1
             THEN /\ rep_last' = RepLast("ReportOrphans", orphans, "assert")
                  /\ rep_alive' = FALSE
                  /\ UNCHANGED doc
             ELSE \E order \in Orders(orphans) :
                    /\ doc' = AddChildAt(doc, inf[1],
                                 TextElem("warning",
                                   "WARNING! Found unused primary events: "
                                     \o OrphanText(order, 1)))
                    /\ rep_last' = RepLast("ReportOrphans", orphans, "ok")
                    /\ UNCHANGED rep_alive

-----------------------------------------------------------------------------
\* Strings that the code takes apart are sequences of one-character strings.

\* The std::string of a character sequence.
RECURSIVE Str(_)
Str(cs) == IF cs = <<>> THEN "" ELSE Head(cs) \o Str(Tail(cs))

\* The characters of "not" and of "not ".
NotWord == <<"n", "o", "t">>
NotPrefix == <<"n", "o", "t", " ">>

\* The code of a character in use.
CharCode(c) ==
  CASE c = " " -> 32
    [] c = "a" -> 97
    [] c = "b" -> 98
    [] c = "c" -> 99
    [] c = "n" -> 110
    [] c = "o" -> 111
    [] c = "t" -> 116

\* std::string's operator<
RECURSIVE StrLess(_, _)
StrLess(a, b) ==
  IF b = <<>> THEN FALSE
  ELSE IF a = <<>> THEN TRUE
  ELSE IF CharCode(Head(a)) # CharCode(Head(b))
  THEN CharCode(Head(a)) < CharCode(Head(b))
  ELSE StrLess(Tail(a), Tail(b))

\* The elements of a std::set<std::string> in iteration order.
RECURSIVE SortedStrings(_)
SortedStrings(S) ==
  IF S = {} THEN <<>>
  ELSE LET m == CHOOSE x \in S : \A y \in S \ {x} : StrLess(x, y)
       IN <<m>> \o SortedStrings(S \ {m})

\* std::lexicographical_compare on two sequences of strings.
RECURSIVE SeqLess(_, _)
SeqLess(a, b) ==
  IF b = <<>> THEN FALSE
  ELSE IF a = <<>> THEN TRUE
  ELSE IF StrLess(Head(a), Head(b)) THEN TRUE
  ELSE IF StrLess(Head(b), Head(a)) THEN FALSE
  ELSE SeqLess(Tail(a), Tail(b))

\* The elements of a std::set< std::set<std::string> > in iteration order.
RECURSIVE SortedCutSets(_)
SortedCutSets(S) ==
  IF S = {} THEN <<>>
  ELSE LET m == CHOOSE x \in S : \A y \in S \ {x} :
                  SeqLess(SortedStrings(x), SortedStrings(y))
       IN <<m>> \o SortedCutSets(S \ {m})

\* boost::split(names, s, boost::is_any_of(" "), boost::token_compress_on)
\* from position i on: cur is the token being read, and a run of spaces
\* ends it once.
RECURSIVE SplitFrom(_, _, _, _)
SplitFrom(s, i, cur, in_run) ==
  IF i > Len(s) THEN <<cur>>
  ELSE IF s[i] = " "
  THEN IF in_run THEN SplitFrom(s, i + 1, cur, TRUE)
       ELSE <<cur>> \o SplitFrom(s, i + 1, <<>>, TRUE)
  ELSE SplitFrom(s, i + 1, Append(cur, s[i]), FALSE)

Split(s) == SplitFrom(s, 1, <<>>, FALSE)

\* The first position at or after i where pat occurs in s, 0 if none.
RECURSIVE FindFirst(_, _, _)
FindFirst(s, pat, i) ==
  IF i + Len(pat) - 1 > Len(s) THEN 0
  ELSE IF SubSeq(s, i, i + Len(pat) - 1) = pat THEN i
  ELSE FindFirst(s, pat, i + 1)

\* boost::replace_first(s, pat, rep)
ReplaceFirst(s, pat, rep) ==
  LET k == FindFirst(s, pat, 1)
  IN IF k = 0 THEN s
     ELSE SubSeq(s, 1, k - 1) \o rep \o SubSeq(s, k + Len(pat), Len(s))

\* reporter.cc:201: the member is written as a negation.
IsNegated(full_name) == Split(full_name)[1] = NotWord

\* reporter.cc:202-204 and 227: the key looked up in basic_events_.
LookupName(full_name) ==
  IF IsNegated(full_name) THEN ReplaceFirst(full_name, NotPrefix, <<>>)
  ELSE full_name

-----------------------------------------------------------------------------
\* Analysis results.

\* A BasicEvent, and a CcfEvent with its group data.
BasicEv(orig_id) ==
  [orig_id |-> orig_id, is_ccf |-> FALSE, ccf_group_name |-> "",
   member_names |-> <<>>, ccf_group_size |-> 0]

CcfEv(orig_id, group, members, size) ==
  [orig_id |-> orig_id, is_ccf |-> TRUE, ccf_group_name |-> group,
   member_names |-> members, ccf_group_size |-> size]

\* FaultTreeAnalysis::basic_events_: the event a is plain, b stands for two
\* members of the CCF group G of size 3, and one plain event has the id "not".
EventsMap ==
  ("a" :> BasicEv("A")) @@
  ("b" :> CcfEv("[B1 B2]", "G", <<"B1", "B2">>, 3)) @@
  ("not" :> BasicEv("Not"))

NullProb == [null |-> TRUE]

\* A value read past the end of prob_of_min_sets.
GarbageDoubles == {0, 77}

\* reporter.cc:207-225 and 230-247: the entry of a resolved event.
RenderEvent(ev) ==
  IF ~ev.is_ccf
  THEN Elem("basic-event", << <<"name", ev.orig_id>> >>, <<>>)
  ELSE Elem("ccf-event",
            << <<"ccf-group", ev.ccf_group_name>>,
               <<"order", LexicalCast(Len(ev.member_names))>>,
               <<"group-size", LexicalCast(ev.ccf_group_size)>> >>,
            [i \in 1..Len(ev.member_names) |->
               Elem("basic-event", << <<"name", ev.member_names[i]>> >>, <<>>)])

\* reporter.cc:195-248: one member of a cut set, written under `product`.
\* find() of an unknown name gives end(), and its dereference ends the run.
RenderMember(fta, product, full_name) ==
  LET key == Str(LookupName(full_name))
  IN IF key \notin DOMAIN fta.basic_events_
     THEN [node |-> product, ok |-> FALSE]
     ELSE [node |-> AddChild(product,
                      IF IsNegated(full_name)
                      THEN Elem("not", <<>>,
                                <<RenderEvent(fta.basic_events_[key])>>)
                      ELSE RenderEvent(fta.basic_events_[key])),
           ok |-> TRUE]

\* reporter.cc:194: the loop over the members from position i on.
RECURSIVE RenderMembers(_, _, _, _)
RenderMembers(fta, acc, members, i) ==
  IF i > Len(members) \/ ~acc.ok THEN acc
  ELSE RenderMembers(fta, RenderMember(fta, acc.node, members[i]),
                     members, i + 1)

\* A product element that is never given its probability.
ProductHeadBare(prob, cut_set, garbage) ==
  Elem("product", << <<"order", LexicalCast(Cardinality(cut_set))>> >>, <<>>)

\* reporter.cc:179-188: the product element before its members.
ProductHead(prob, cut_set, garbage) ==
  Elem("product",
       << <<"order", LexicalCast(Cardinality(cut_set))>> >> \o
       (IF prob = NullProb THEN <<>>
        ELSE << <<"probability",
                  LexicalCast(IF cut_set \in DOMAIN prob.prob_of_min_sets
                              THEN prob.prob_of_min_sets[cut_set]
                              ELSE garbage)>> >>),
       <<>>)

\* reporter.cc:177: the loop over the cut sets from position i on.  acc is
\* [node, ok]: the sum-of-products so far and whether the run is still alive.
\* A product is attached when it is created, so it stays, half written,
\* when one of its members ends the run.
RECURSIVE RenderProducts(_, _, _, _, _, _)
RenderProducts(fta, prob, garbage, acc, cut_sets, i) ==
  IF i > Len(cut_sets) \/ ~acc.ok THEN acc
  ELSE LET p == RenderMembers(fta,
                  [node |-> ProductHead(prob, cut_sets[i], garbage),
                   ok |-> TRUE],
                  SortedStrings(cut_sets[i]), 1)
       IN RenderProducts(fta, prob, garbage,
            [node |-> AddChild(acc.node, p.node), ok |-> p.ok],
            cut_sets, i + 1)

\* reporter.cc:153-174: the section before its products.
SumOfProductsHead(ft_name, fta, prob) ==
  LET warning == fta.warnings \o
                   (IF prob = NullProb THEN "" ELSE prob.warnings)
  IN Elem("sum-of-products",
          << <<"name", ft_name>>,
             <<"basic-events", LexicalCast(fta.num_basic_events_)>>,
             <<"products", LexicalCast(Cardinality(fta.min_cut_sets_))>> >> \o
          (IF prob = NullProb THEN <<>>
           ELSE << <<"probability", LexicalCast(prob.p_total)>> >>),
          IF warning # "" THEN <<TextElem("warning", warning)>> ELSE <<>>)

\* A performance entry that is not given the name of its tree.
CalcTimeUnnamed(ft_name, fta, prob) ==
  Elem("calculation-time", << <<"name", "">> >>,
       <<TextElem("minimal-cut-set", LexicalCast(fta.analysis_time_))>> \o
       (IF prob = NullProb THEN <<>>
        ELSE <<TextElem("probability", LexicalCast(prob.p_time_))>>))

\* reporter.cc:258-265
CalcTime(ft_name, fta, prob) ==
  Elem("calculation-time", << <<"name", ft_name>> >>,
       <<TextElem("minimal-cut-set", LexicalCast(fta.analysis_time_))>> \o
       (IF prob = NullProb THEN <<>>
        ELSE <<TextElem("probability", LexicalCast(prob.p_time_))>>))

\* Reporter::ReportFta
ReportFta(ft_name, fta, prob, garbage) ==
  /\ RepCall
  /\ UNCHANGED setups_ok
  /\ LET arg == [ft_name |-> ft_name, fta |-> fta, prob |-> prob]
     IN
     IF doc = NullDoc
     THEN \* root->find on the null root node
          /\ rep_last' = RepLast("ReportFta", arg, "crash")
          /\ rep_alive' = FALSE
          /\ UNCHANGED <<doc, sections>>
     ELSE LET res == Find(doc, <<"results">>)
          IN IF Len(res) # 1
             THEN /\ rep_last' = RepLast("ReportFta", arg, "assert")
                  /\ rep_alive' = FALSE
                  /\ UNCHANGED <<doc, sections>>
             ELSE LET sop == RenderProducts(fta, prob, garbage,
                               [node |-> SumOfProductsHead(ft_name, fta, prob),
                                ok |-> TRUE],
                               SortedCutSets(fta.min_cut_sets_), 1)
                      doc1 == AddChildAt(doc, res[1], sop.node)
                      perf == Find(doc1, <<"information", "performance">>)
                  IN /\ sections' = Append(sections,
                                           <<"sum-of-products", ft_name>>)
                     /\ IF ~sop.ok
                        THEN /\ doc' = doc1
                             /\ rep_last' = RepLast("ReportFta", arg, "crash")
                             /\ rep_alive' = FALSE
                        ELSE IF Len(perf) # 1
                        THEN /\ doc' = doc1
                             /\ rep_last' = RepLast("ReportFta", arg, "assert")
                             /\ rep_alive' = FALSE
                        ELSE /\ doc' = AddChildAt(doc1, perf[1],
                                          CalcTime(ft_name, fta, prob))
                             /\ rep_last' = RepLast("ReportFta", arg, "ok")
                             /\ UNCHANGED rep_alive
  /\ fta_done' = IF rep_last'.outcome = "ok"
                  THEN Append(fta_done, [ft_name |-> ft_name,
                                         with_prob |-> prob # NullProb])
                  ELSE fta_done

\* reporter.cc:291-309: the entry of one event of the importance map.  The
\* element is attached before its name is looked up, so it stays, without
\* attributes, when the lookup of an unknown id ends the run.
ImportanceEntry(prob, id) ==
  IF Str(id) \notin DOMAIN prob.basic_events_
  THEN [node |-> Elem("basic-event", <<>>, <<>>), ok |-> FALSE]
  ELSE LET v == prob.importance[id]
       IN [node |-> Elem("basic-event",
                      << <<"name", prob.basic_events_[Str(id)].orig_id>>,
                         <<"DIF", LexicalCast(v[1])>>,
                         <<"MIF", LexicalCast(v[2])>>,
                         <<"CIF", LexicalCast(v[3])>>,
                         <<"RRW", LexicalCast(v[4])>>,
                         <<"RAW", LexicalCast(v[5])>> >>, <<>>),
           ok |-> TRUE]

\* reporter.cc:289: the loop over the importance map from position i on.
RECURSIVE ImportanceEntries(_, _, _, _)
ImportanceEntries(prob, acc, ids, i) ==
  IF i > Len(ids) \/ ~acc.ok THEN acc
  ELSE LET e == ImportanceEntry(prob, ids[i])
       IN ImportanceEntries(prob,
            [node |-> AddChild(acc.node, e.node), ok |-> e.ok], ids, i + 1)

\* reporter.cc:276-286: the section before its entries.
ImportanceHead(ft_name, prob) ==
  Elem("importance",
       << <<"name", ft_name>>,
          <<"basic-events",
            LexicalCast(Cardinality(DOMAIN prob.importance))>> >>,
       IF prob.warnings # "" THEN <<TextElem("warning", prob.warnings)>>
       ELSE <<>>)

\* A lookup that takes the first entry of the performance log.
FirstCalcTime(calc_times) == calc_times[1]

\* reporter.cc:314 and 369: calc_times.back()
LastCalcTime(calc_times) == calc_times[Len(calc_times)]

\* reporter.cc:311-316 and 366-371: the elapsed time goes under a
\* calculation-time entry of the performance log; the report must have one.
\* d is the document with the section already under results.
AttachTime(op, arg, d, tag, elapsed) ==
  LET calc_times ==
        Find(d, <<"information", "performance", "calculation-time">>)
  IN IF Len(calc_times) = 0
     THEN /\ doc' = d
          /\ rep_last' = RepLast(op, arg, "assert")
          /\ rep_alive' = FALSE
     ELSE /\ doc' = AddChildAt(d, LastCalcTime(calc_times),
                               TextElem(tag, LexicalCast(elapsed)))
          /\ rep_last' = RepLast(op, arg, "ok")
          /\ UNCHANGED rep_alive

\* Reporter::ReportImportance
ReportImportance(ft_name, prob) ==
  /\ RepCall
  /\ UNCHANGED <<setups_ok, fta_done>>
  /\ LET arg == [ft_name |-> ft_name, prob |-> prob]
     IN
     IF doc = NullDoc
     THEN /\ rep_last' = RepLast("ReportImportance", arg, "crash")
          /\ rep_alive' = FALSE
          /\ UNCHANGED <<doc, sections>>
     ELSE LET res == Find(doc, <<"results">>)
          IN IF Len(res) # 1
             THEN /\ rep_last' = RepLast("ReportImportance", arg, "assert")
                  /\ rep_alive' = FALSE
                  /\ UNCHANGED <<doc, sections>>
             ELSE LET imp == ImportanceEntries(prob,
                               [node |-> ImportanceHead(ft_name, prob),
                                ok |-> TRUE],
                               SortedStrings(DOMAIN prob.importance), 1)
                      doc1 == AddChildAt(doc, res[1], imp.node)
                  IN /\ sections' = Append(sections, <<"importance", ft_name>>)
                     /\ IF ~imp.ok
                        THEN /\ doc' = doc1
                             /\ rep_last' =
                                  RepLast("ReportImportance", arg, "crash")
                             /\ rep_alive' = FALSE
                        ELSE AttachTime("ReportImportance", arg, doc1,
                                        "importance", prob.imp_time_)

\* The low 16 bits and the next 16 bits of a two's-complement number.
Lo16(n) == n % 65536
Hi16(n) == (n \div 65536) % 65536

\* reporter.cc:350: size() - 1 is computed in std::size_t and stored in an
\* int, which keeps its low 32 bits as a signed number.
NumBins(size) ==
  LET n == size - 1
  IN IF Hi16(n) >= 32768 THEN (Hi16(n) - 65536) * 65536 + Lo16(n)
     ELSE Hi16(n) * 65536 + Lo16(n)

\* A quantile writer that takes the value of the bin's lower point.
QuantileValueOfLower(distribution, i) ==
  Elem("quantile",
       << <<"number", LexicalCast(i + 1)>>,
          <<"mean", LexicalCast(distribution[i + 1][2])>>,
          <<"lower-bound", LexicalCast(distribution[i + 1][1])>>,
          <<"upper-bound", LexicalCast(distribution[i + 2][1])>> >>, <<>>)

\* reporter.cc:353-365: the quantile of the loop index i (from 0).  The
\* vector is indexed from 0 in the code, from 1 here.
Quantile(distribution, i) ==
  Elem("quantile",
       << <<"number", LexicalCast(i + 1)>>,
          <<"mean", LexicalCast(distribution[i + 2][2])>>,
          <<"lower-bound", LexicalCast(distribution[i + 1][1])>>,
          <<"upper-bound", LexicalCast(distribution[i + 2][1])>> >>, <<>>)

\* reporter.cc:349-365
Quantiles(distribution) ==
  LET num_bins == NumBins(Len(distribution))
  IN Elem("quantiles", << <<"number", LexicalCast(num_bins)>> >>,
          [k \in 1..num_bins |-> Quantile(distribution, k - 1)])

\* reporter.cc:327-365: the measure section.
Measure(ft_name, unc) ==
  Elem("measure", << <<"name", ft_name>> >>,
       (IF unc.warnings # "" THEN <<TextElem("warning", unc.warnings)>>
        ELSE <<>>) \o
       << Elem("mean", << <<"value", LexicalCast(unc.mean)>> >>, <<>>),
          Elem("standard-deviation",
               << <<"value", LexicalCast(unc.sigma)>> >>, <<>>),
          Elem("confidence-range",
               << <<"percentage", "95">>,
                  <<"lower-bound", LexicalCast(unc.confidence_interval[1])>>,
                  <<"upper-bound", LexicalCast(unc.confidence_interval[2])>> >>,
               <<>>),
          Quantiles(unc.distribution) >>)

\* Reporter::ReportUncertainty
ReportUncertainty(ft_name, unc) ==
  /\ RepCall
  /\ UNCHANGED <<setups_ok, fta_done>>
  /\ LET arg == [ft_name |-> ft_name, unc |-> unc]
     IN
     IF doc = NullDoc
     THEN /\ rep_last' = RepLast("ReportUncertainty", arg, "crash")
          /\ rep_alive' = FALSE
          /\ UNCHANGED <<doc, sections>>
     ELSE LET res == Find(doc, <<"results">>)
          IN IF Len(res) # 1
             THEN /\ rep_last' = RepLast("ReportUncertainty", arg, "assert")
                  /\ rep_alive' = FALSE
                  /\ UNCHANGED <<doc, sections>>
             ELSE /\ sections' = Append(sections, <<"measure", ft_name>>)
                  /\ AttachTime("ReportUncertainty", arg,
                                AddChildAt(doc, res[1], Measure(ft_name, unc)),
                                "uncertainty", unc.p_time_)

-----------------------------------------------------------------------------
\* The results handed to the writers.

MaxSample == 3
MaxCutSets == 2

TreeNames == {"A", "B"}

\* A FaultTreeAnalysis with the cut sets mcs.
Fta(mcs, warnings) ==
  [num_basic_events_ |-> Cardinality(DOMAIN EventsMap),
   min_cut_sets_ |-> mcs, basic_events_ |-> EventsMap,
   warnings |-> warnings, analysis_time_ |-> 5]

\* A ProbabilityAnalysis with a probability for each cut set of `known`.
Prob(known, warnings) ==
  [p_total |-> 1, prob_of_min_sets |-> [c \in known |-> Cardinality(c)],
   warnings |-> warnings, p_time_ |-> 6,
   importance |-> [id \in {<<"a">>, <<"b">>} |-> <<1, 2, 3, 4, 5>>],
   basic_events_ |-> EventsMap, imp_time_ |-> 7]

\* An UncertaintyAnalysis whose distribution has n points.
Unc(n) ==
  [warnings |-> "", mean |-> 1, sigma |-> 2, confidence_interval |-> <<0, 3>>,
   distribution |-> [i \in 1..n |-> <<10 * i, i>>], p_time_ |-> 8]

\* The cut set of the spec's example, and one with an unknown member.
ExampleCutSet == {<<"a">>, <<"n", "o", "t", " ", "b">>}
UnknownCutSet == {<<"c">>}

FtaAndProb ==
  { <<Fta({ExampleCutSet}, ""), NullProb>>,
    <<Fta({ExampleCutSet}, ""), Prob({ExampleCutSet}, "")>>,
    <<Fta({UnknownCutSet}, "w"), NullProb>> }

RepNext ==
  \/ \E r \in RiskAnalysisSet, s \in SettingsSet, t \in LocalTimes :
       SetupReport(r, s, t)
  \/ \E o \in SUBSET OrphanIds : ReportOrphans(o)
  \/ \E n \in TreeNames, fp \in FtaAndProb, g \in GarbageDoubles :
       ReportFta(n, fp[1], fp[2], g)
  \/ \E n \in TreeNames : ReportImportance(n, Prob({ExampleCutSet}, ""))
  \/ \E n \in TreeNames, k \in 0..MaxSample : ReportUncertainty(n, Unc(k))

-----------------------------------------------------------------------------
\* The registry alone, and the reporter alone.

InitTree ==
  TreeInit /\ tree_budget = MaxCalls /\ RepInit /\ doc = NullDoc
  /\ rep_budget = MaxReportCalls

SpecTree == InitTree /\ [][TreeNext]_vars

\* The registry over longer runs: gates with a name, each with the primary
\* event e1 among its children.
NamedGates ==
  {g \in Gates : /\ g.id # ""
                 /\ "e1" \in DOMAIN g.children
                 /\ g.children["e1"] = "primary"}

TreeSeqNext ==
  \/ \E gate \in NamedGates : AddGate(gate)
  \/ GatherPrimaryEvents

InitTreeSeq ==
  TreeInit /\ tree_budget = MaxTreeSeqCalls /\ RepInit /\ doc = NullDoc
  /\ rep_budget = MaxReportCalls

SpecTreeSeq == InitTreeSeq /\ [][TreeSeqNext]_vars

InitReport ==
  TreeInit /\ tree_budget = MaxCalls /\ RepInit /\ rep_budget = MaxReportCalls

SpecReport == InitReport /\ [][RepNext]_vars

\* The cut-set writer alone, on the first section of a report, with every
\* small set of cut sets over these members.
Members ==
  { <<"a">>, <<"b">>, <<"c">>, <<"n", "o", "t">>,
    <<"n", "o", "t", " ", "a">>, <<"n", "o", "t", " ", "b">> }

CutSets == {c \in SUBSET Members : Cardinality(c) \in {1, 2}}

MinCutSets == {m \in SUBSET CutSets : Cardinality(m) <= MaxCutSets}

\* No probability analysis, one that knows every cut set, or one that
\* misses one of them.
ProbsFor(mcs) ==
  {NullProb, Prob(mcs, "p")} \cup {Prob(mcs \ {c}, "") : c \in mcs}

\* The settings of a run with every analysis enabled.
FullSettings ==
  {s \in SettingsSet : /\ s.ccf_analysis_ /\ s.probability_analysis_
                       /\ s.importance_analysis_ /\ s.uncertainty_analysis_}

FtaNext ==
  \/ \E r \in RiskAnalysisSet, s \in FullSettings, t \in LocalTimes :
       SetupReport(r, s, t)
  \/ \E n \in TreeNames, m \in MinCutSets, g \in GarbageDoubles :
       \E pr \in ProbsFor(m) :
         sections = <<>> /\ ReportFta(n, Fta(m, ""), pr, g)

InitFta ==
  TreeInit /\ tree_budget = MaxCalls /\ RepInit /\ doc = NullDoc
  /\ rep_budget = MaxReportCalls

SpecFta == InitFta /\ [][FtaNext]_vars

\* The writers of a whole run: a report with every analysis enabled, then
\* the sections of the trees A and B in any order, with and without a
\* probability analysis.
SeqNext ==
  \/ \E r \in RiskAnalysisSet, s \in FullSettings, t \in LocalTimes :
       SetupReport(r, s, t)
  \/ \E n \in TreeNames, fp \in FtaAndProb :
       ReportFta(n, fp[1], fp[2], 0)
  \/ \E n \in TreeNames : ReportImportance(n, Prob({ExampleCutSet}, ""))
  \/ \E n \in TreeNames : ReportUncertainty(n, Unc(2))

InitSeq ==
  TreeInit /\ tree_budget = MaxCalls /\ RepInit /\ doc = NullDoc
  /\ rep_budget = MaxSeqCalls

SpecSeq == InitSeq /\ [][SeqNext]_vars

-----------------------------------------------------------------------------
\* Properties of the registry.

\* The identifiers of the gates the tree holds, top and intermediate.
RegisteredGateIds ==
  (IF top_event_ = NullGate THEN {} ELSE {top_event_.id})
    \cup DOMAIN inter_events_

\* The gates the tree holds.
RegisteredGates ==
  (IF top_event_ = NullGate THEN {} ELSE {top_event_})
    \cup {inter_events_[k] : k \in DOMAIN inter_events_}

\* C1: while the tree is not finalized and the identifiers passed to AddGate
\* are pairwise distinct, the gate of the first call is the top gate, and
\* the gate of every later call is an intermediate gate and not the top gate.
C1_FirstGateStaysTop ==
  (~finalize_called /\ ids_distinct /\ first_gate # NullGate) =>
    /\ top_event_ = first_gate
    /\ \A g \in later_gates :
         /\ g.id \in DOMAIN inter_events_
         /\ inter_events_[g.id] = g
         /\ top_event_ # g

\* C2: on a tree that is not finalized, an AddGate call whose identifier is
\* that of a gate accepted by an earlier call ends in the
\* duplicate-definition error.
C2_DuplicateAlwaysFails ==
  (tree_last.op = "AddGate" /\ ~tree_last.after_finalize /\ tree_last.dup)
    => tree_last.outcome = "ValueError"

\* C3: once Finalize has been called the tree stays locked, and every later
\* AddGate call ends in the locked-tree error, whether its identifier is
\* new, that of the top gate or that of an intermediate gate: the test of
\* the lock comes before the test for a second definition.
C3_LockedAfterFinalize ==
  /\ finalize_called => lock_
  /\ (tree_last.op = "AddGate" /\ tree_last.after_finalize)
       => tree_last.outcome = "Error"

\* C3 witness: an AddGate call after Finalize that reuses the identifier of
\* an intermediate gate, and so would also be a second definition.
C3_Witness ==
  /\ tree_last.op = "AddGate"
  /\ tree_last.after_finalize
  /\ tree_last.dup
  /\ tree_last.gate.id \in DOMAIN inter_events_
  /\ tree_last.gate.id # top_event_id_
  /\ lock_
  /\ tree_last.outcome = "Error"

\* The child identifiers of the gates the tree holds.
ChildIdsOfTree == UNION {DOMAIN g.children : g \in RegisteredGates}

\* C4: after Finalize has completed on a tree with a top gate, the keys of
\* the primary-event mapping are exactly the child identifiers that are not
\* identifiers of a gate of the tree, top or intermediate.
C4_PrimaryEventsAreTheLeaves ==
  (tree_last.op = "Finalize" /\ tree_last.outcome = "ok") =>
    DOMAIN primary_events_ = ChildIdsOfTree \ RegisteredGateIds

\* C5: Finalize on a tree with a top gate ends in the invariant violation
\* exactly when some child of a gate of the tree is neither a gate of the
\* tree (top or intermediate) nor a primary event.
C5_ViolationIffUnresolvedLeaf ==
  (tree_last.op = "Finalize" /\ top_event_ # NullGate) =>
    (tree_last.outcome = "assert" <=>
       \E g \in RegisteredGates : \E c \in DOMAIN g.children :
         c \notin RegisteredGateIds /\ g.children[c] # "primary")

-----------------------------------------------------------------------------
\* Properties of the reporter.

Writers ==
  {"ReportOrphans", "ReportFta", "ReportImportance", "ReportUncertainty"}

\* The children of a node that are named name.
KidsNamed(node, name) ==
  SelectSeq(node.kids, LAMBDA k : k.name = name)

\* The value of an attribute the node has.
AttrOf(node, key) ==
  LET i == CHOOSE i \in 1..Len(node.attrs) : node.attrs[i][1] = key
  IN node.attrs[i][2]

\* The number of calculated-quantity blocks with this name.
Quantities(information, name) ==
  Len(SelectSeq(information.kids,
        LAMBDA k : k.name = "calculated-quantity" /\ AttrOf(k, "name") = name))

Count(flag) == IF flag THEN 1 ELSE 0

\* C6: SetupReport on a document with content ends in the
\* already-populated-document error and leaves the document as it was, so
\* at most one SetupReport call on a document returns.
C6_SetupOnlyOnEmpty ==
  /\ (rep_last.op = "SetupReport" /\ doc_prev # NullDoc) =>
       (rep_last.outcome = "LogicError" /\ doc = doc_prev)
  /\ setups_ok <= 1

\* C6 witness: a second SetupReport after one that returned, refused.
C6_Witness ==
  /\ rep_last.op = "SetupReport"
  /\ rep_last.set_up
  /\ rep_last.outcome = "LogicError"
  /\ doc = doc_prev

\* C7: SetupReport on an empty document writes one calculated-quantity
\* block for minimal cut set analysis and one for each enabled flag, none
\* for a disabled flag, one performance log and one empty results section.
C7_QuantitiesMatchFlags ==
  (rep_last.op = "SetupReport" /\ rep_last.outcome = "ok") =>
    LET s == rep_last.arg
        inf == KidsNamed(doc, "information")
        res == KidsNamed(doc, "results")
    IN /\ Len(inf) = 1
       /\ Quantities(inf[1], "Minimal Cut Set Analysis") = 1
       /\ Quantities(inf[1], "CCF Analysis") = Count(s.ccf_analysis_)
       /\ Quantities(inf[1], "Probability Analysis")
            = Count(s.probability_analysis_)
       /\ Quantities(inf[1], "Importance Analysis")
            = Count(s.importance_analysis_)
       /\ Quantities(inf[1], "Uncertainty Analysis")
            = Count(s.uncertainty_analysis_)
       /\ Len(KidsNamed(inf[1], "calculated-quantity"))
            = 1 + Count(s.ccf_analysis_) + Count(s.probability_analysis_)
                + Count(s.importance_analysis_)
                + Count(s.uncertainty_analysis_)
       /\ Len(KidsNamed(inf[1], "performance")) = 1
       /\ Len(res) = 1
       /\ res[1].kids = <<>>

\* C7 witness: a set-up report with two flags enabled and two disabled.
C7_Witness ==
  /\ rep_last.op = "SetupReport"
  /\ rep_last.outcome = "ok"
  /\ rep_last.arg.ccf_analysis_
  /\ ~rep_last.arg.probability_analysis_
  /\ rep_last.arg.importance_analysis_
  /\ ~rep_last.arg.uncertainty_analysis_
  /\ Len(KidsNamed(KidsNamed(doc, "information")[1], "calculated-quantity")) = 3

\* C8: a writer called on a document on which SetupReport has not returned
\* is detected as a precondition violation and leaves the document as it
\* was.
C8_WriterBeforeSetupDetected ==
  (rep_last.op \in Writers /\ ~rep_last.set_up) =>
    (rep_last.outcome \in {"assert", "LogicError"} /\ doc = doc_prev)

\* new holds everything old holds, in place: the same name, attributes and
\* text, and the children of old, each extended the same way, before any
\* new child.
RECURSIVE Extends(_, _)
Extends(old, new) ==
  /\ old.name = new.name
  /\ old.attrs = new.attrs
  /\ old.text = new.text
  /\ Len(old.kids) <= Len(new.kids)
  /\ \A i \in 1..Len(old.kids) : Extends(old.kids[i], new.kids[i])

\* The sections under results: the element name and the name attribute.
ResultSections ==
  LET r == KidsNamed(doc, "results")[1].kids
  IN [i \in 1..Len(r) |-> <<r[i].name, AttrOf(r[i], "name")>>]

\* C9: after SetupReport has returned, a writer call only adds nodes: what
\* the document held before the call it holds after it, in place, and the
\* sections under results are in the order of the calls that wrote them.
C9_WritersOnlyAdd ==
  (rep_last.op \in Writers /\ rep_last.set_up) =>
    (Extends(doc_prev, doc) /\ ResultSections = sections)

\* C9 witness: a second section written under an earlier one.
C9_Witness ==
  /\ rep_last.op \in Writers
  /\ rep_last.set_up
  /\ rep_last.outcome = "ok"
  /\ doc # doc_prev
  /\ Len(sections) = 2
  /\ sections[1][1] = "sum-of-products"
  /\ sections[2][1] = "importance"

\* What the claim has a member mean: it is negated when it starts with
\* "not ", and the identifier is what follows that prefix.
HasNotPrefix(m) == Len(m) >= 4 /\ SubSeq(m, 1, 4) = NotPrefix

ClaimedId(m) == IF HasNotPrefix(m) THEN SubSeq(m, 5, Len(m)) ELSE m

\* The entry the claim gives an event: a CCF-member entry with the group
\* name, the number of members, the group size and one child per member,
\* or a basic-event entry with the display identifier.
ClaimedEntry(ev) ==
  IF ev.is_ccf
  THEN Elem("ccf-event",
            << <<"ccf-group", ev.ccf_group_name>>,
               <<"order", ToString(Len(ev.member_names))>>,
               <<"group-size", ToString(ev.ccf_group_size)>> >>,
            [i \in 1..Len(ev.member_names) |->
               Elem("basic-event", << <<"name", ev.member_names[i]>> >>, <<>>)])
  ELSE Elem("basic-event", << <<"name", ev.orig_id>> >>, <<>>)

\* The children the claim gives the product of a cut set.
ClaimedChildren(fta, cut_set) ==
  LET ms == SortedStrings(cut_set)
  IN [i \in 1..Len(ms) |->
        LET e == ClaimedEntry(fta.basic_events_[Str(ClaimedId(ms[i]))])
        IN IF HasNotPrefix(ms[i]) THEN Elem("not", <<>>, <<e>>) ELSE e]

\* The products of the section written last.
LastProducts ==
  LET r == KidsNamed(doc, "results")[1].kids
  IN KidsNamed(r[Len(r)], "product")

\* C10: ReportFta writes one product per minimal cut set, its order the
\* member count; a member starting with "not " is written under a negation
\* node and resolved by the rest of its name, any other member directly and
\* resolved by its full name; a CCF event is written as a CCF-member entry,
\* any other event as a basic-event entry.
C10_ProductsAsClaimed ==
  LET fta == rep_last.arg.fta
  IN (/\ rep_last.op = "ReportFta"
      /\ rep_last.outcome = "ok"
      /\ \A c \in fta.min_cut_sets_ : \A m \in c :
           Str(ClaimedId(m)) \in DOMAIN fta.basic_events_) =>
       /\ Len(LastProducts) = Cardinality(fta.min_cut_sets_)
       /\ {<<AttrOf(LastProducts[i], "order"), LastProducts[i].kids>> :
             i \in 1..Len(LastProducts)}
          = {<<ToString(Cardinality(c)), ClaimedChildren(fta, c)>> :
             c \in fta.min_cut_sets_}

\* The section written last under results.
LastSection ==
  LET r == KidsNamed(doc, "results")[1].kids
  IN r[Len(r)]

\* C11: for a sample of N >= 2 points ReportUncertainty writes N-1 quantile
\* entries numbered 1..N-1 in order; entry i has the boundary of point i-1
\* as lower bound, the boundary of point i as upper bound and the value of
\* point i (points counted from 0), and the count attribute is N-1.
C11_QuantilesOfSample ==
  (/\ rep_last.op = "ReportUncertainty"
   /\ rep_last.set_up
   /\ Len(rep_last.arg.unc.distribution) >= 2) =>
    LET sample == rep_last.arg.unc.distribution
        N == Len(sample)
        q == KidsNamed(LastSection, "quantiles")
    IN /\ Len(q) = 1
       /\ AttrOf(q[1], "number") = ToString(N - 1)
       /\ Len(q[1].kids) = N - 1
       /\ \A i \in 1..(N - 1) :
            /\ q[1].kids[i].name = "quantile"
            /\ AttrOf(q[1].kids[i], "number") = ToString(i)
            /\ AttrOf(q[1].kids[i], "lower-bound") = ToString(sample[i][1])
            /\ AttrOf(q[1].kids[i], "upper-bound") = ToString(sample[i + 1][1])
            /\ AttrOf(q[1].kids[i], "mean") = ToString(sample[i + 1][2])

\* C11 witness: a sample of three points written as two quantiles.
C11_Witness ==
  /\ rep_last.op = "ReportUncertainty"
  /\ rep_last.set_up
  /\ rep_last.outcome = "ok"
  /\ Len(rep_last.arg.unc.distribution) = 3
  /\ Len(KidsNamed(LastSection, "quantiles")[1].kids) = 2

\* The calculation-time entries of the performance log of a document.
CalcTimesOf(d) ==
  KidsNamed(KidsNamed(KidsNamed(d, "information")[1], "performance")[1],
            "calculation-time")

\* The tag of the time child a writer attaches, and the time it reports.
TimeTag == IF rep_last.op = "ReportImportance" THEN "importance"
           ELSE "uncertainty"

TimeOfCall == IF rep_last.op = "ReportImportance"
              THEN rep_last.arg.prob.imp_time_
              ELSE rep_last.arg.unc.p_time_

\* The entries of the log that differ from what they were before the call.
ChangedEntries ==
  {i \in 1..Len(CalcTimesOf(doc)) :
     i > Len(CalcTimesOf(doc_prev)) \/ CalcTimesOf(doc)[i] # CalcTimesOf(doc_prev)[i]}

\* C12: a ReportImportance or ReportUncertainty call that returns attaches
\* its time child to the calculation-time entry ReportFta added last before
\* the call, and changes no other entry; after ReportFta(A),
\* ReportImportance(A), ReportFta(B), ReportImportance(B) each entry holds
\* one importance time.
C12_TimeInLatestEntry ==
  /\ (rep_last.op \in {"ReportImportance", "ReportUncertainty"}
       /\ rep_last.outcome = "ok") =>
       LET before == CalcTimesOf(doc_prev)
           after == CalcTimesOf(doc)
           n == Len(before)
       IN /\ n >= 1
          /\ Len(after) = n
          /\ ChangedEntries = {n}
          /\ after[n] = AddChild(before[n],
                                 TextElem(TimeTag, ToString(TimeOfCall)))
  /\ (sections = << <<"sum-of-products", "A">>, <<"importance", "A">>,
                     <<"sum-of-products", "B">>, <<"importance", "B">> >>
       /\ rep_last.outcome = "ok") =>
       LET ct == CalcTimesOf(doc)
       IN /\ Len(ct) = 2
          /\ AttrOf(ct[1], "name") = "A"
          /\ AttrOf(ct[2], "name") = "B"
          /\ Len(KidsNamed(ct[1], "importance")) = 1
          /\ Len(KidsNamed(ct[2], "importance")) = 1

\* C12 witness: the four calls of the claim, the second importance time
\* under B's entry.
C12_Witness ==
  /\ sections = << <<"sum-of-products", "A">>, <<"importance", "A">>,
                   <<"sum-of-products", "B">>, <<"importance", "B">> >>
  /\ rep_last.op = "ReportImportance"
  /\ rep_last.outcome = "ok"
  /\ Len(KidsNamed(CalcTimesOf(doc)[2], "importance")) = 1
  /\ Len(KidsNamed(CalcTimesOf(doc_prev)[2], "importance")) = 0

\* The tree of the last ReportFta call that wrote a section.
LastFtaName ==
  LET sop == SelectSeq(sections, LAMBDA x : x[1] = "sum-of-products")
  IN sop[Len(sop)][2]

\* C13 as stated: the time child of ReportImportance(T) or
\* ReportUncertainty(T) goes under a calculation-time entry named T, the
\* last one of that name.
C13_TimeInNamedEntry ==
  (rep_last.op \in {"ReportImportance", "ReportUncertainty"}
   /\ rep_last.outcome = "ok") =>
    LET after == CalcTimesOf(doc)
    IN /\ ChangedEntries # {}
       /\ \A i \in ChangedEntries :
            /\ AttrOf(after[i], "name") = rep_last.arg.ft_name
            /\ \A j \in (i + 1)..Len(after) :
                 AttrOf(after[j], "name") # rep_last.arg.ft_name

\* C13 amended: the time child of ReportImportance(T) or
\* ReportUncertainty(T) goes under the calculation-time entry bearing the
\* name of the tree of the latest ReportFta call, whatever T is; after
\* ReportFta(A), ReportFta(B), ReportImportance(A) the importance time is
\* in B's entry and A's entry has none.
C13_TimeInEntryOfLatestTree ==
  /\ (rep_last.op \in {"ReportImportance", "ReportUncertainty"}
       /\ rep_last.outcome = "ok") =>
       /\ ChangedEntries # {}
       /\ \A i \in ChangedEntries :
            AttrOf(CalcTimesOf(doc)[i], "name") = LastFtaName
  /\ (sections = << <<"sum-of-products", "A">>, <<"sum-of-products", "B">>,
                     <<"importance", "A">> >>
       /\ rep_last.outcome = "ok") =>
       LET ct == CalcTimesOf(doc)
       IN /\ AttrOf(ct[1], "name") = "A"
          /\ AttrOf(ct[2], "name") = "B"
          /\ Len(KidsNamed(ct[1], "importance")) = 0
          /\ Len(KidsNamed(ct[2], "importance")) = 1

\* C13 witness: ReportImportance for A after the sections of A and B, its
\* time under B's entry.
C13_Witness ==
  /\ sections = << <<"sum-of-products", "A">>, <<"sum-of-products", "B">>,
                   <<"importance", "A">> >>
  /\ rep_last.op = "ReportImportance"
  /\ rep_last.arg.ft_name = "A"
  /\ rep_last.outcome = "ok"
  /\ Len(KidsNamed(CalcTimesOf(doc)[2], "importance")) = 1

\* The warnings of the information section of a document.
WarningsOf(d) == KidsNamed(KidsNamed(d, "information")[1], "warning")

\* The identifiers of a sequence, one after another, a space after each.
RECURSIVE Joined(_)
Joined(ids) == IF ids = <<>> THEN "" ELSE Head(ids) \o " " \o Joined(Tail(ids))

\* C14: ReportOrphans with an empty set of orphans is refused as a
\* precondition violation and adds no node; with a non-empty set, on a
\* set-up report, it adds one warning node to the information section, whose
\* text names every orphan by its display identifier.
C14_OrphansWarning ==
  /\ (rep_last.op = "ReportOrphans" /\ rep_last.arg = {}) =>
       (rep_last.outcome = "assert" /\ doc = doc_prev)
  /\ (rep_last.op = "ReportOrphans" /\ rep_last.arg # {}
       /\ rep_last.set_up) =>
       LET before == WarningsOf(doc_prev)
           after == WarningsOf(doc)
       IN /\ rep_last.outcome = "ok"
          /\ Len(after) = Len(before) + 1
          /\ SubSeq(after, 1, Len(before)) = before
          /\ \E order \in Orders(rep_last.arg) :
               after[Len(after)] =
                 TextElem("warning",
                          "WARNING! Found unused primary events: "
                            \o Joined(order))

\* C14 witness: two orphans reported in one warning of a set-up report.
C14_Witness ==
  /\ rep_last.op = "ReportOrphans"
  /\ rep_last.arg = {"P1", "P2"}
  /\ rep_last.set_up
  /\ rep_last.outcome = "ok"
  /\ Len(WarningsOf(doc)) = Len(WarningsOf(doc_prev)) + 1

\* The ways a call reports an error to its caller: a thrown scram error or
\* a failed assertion.
Reported == {"Error", "ValueError", "LogicError", "assert"}

\* A cut set of the analysis has a member that names no basic event, or the
\* probability analysis has no entry for a cut set.
HasUnresolved(fta, prob) ==
  \/ \E c \in fta.min_cut_sets_ : \E m \in c :
       Str(ClaimedId(m)) \notin DOMAIN fta.basic_events_
  \/ /\ prob # NullProb
     /\ \E c \in fta.min_cut_sets_ : c \notin DOMAIN prob.prob_of_min_sets

\* C15: ReportFta on a set-up report, given a cut-set member that names no
\* basic event or a probability analysis without an entry for a cut set,
\* ends in an error reported to the caller and writes no product.
C15_UnresolvedIsReported ==
  (/\ rep_last.op = "ReportFta"
   /\ rep_last.set_up
   /\ HasUnresolved(rep_last.arg.fta, rep_last.arg.prob)) =>
    /\ rep_last.outcome \in Reported
    /\ LastSection.name # "sum-of-products" \/ LastProducts = <<>>

\* The node has an attribute of this name.
HasAttr(node, key) == \E i \in 1..Len(node.attrs) : node.attrs[i][1] = key

\* The cut-set sections under results, in document order.
SumsOfProducts == KidsNamed(KidsNamed(doc, "results")[1], "sum-of-products")

\* C16: on a set-up report the calculation-time entries of the performance
\* log are those of the ReportFta calls that returned, in call order, each
\* named after the tree of its call and holding one minimal-cut-set time;
\* the entry has a probability time, the section a total probability and
\* every product a probability exactly when the call was given a
\* probability analysis.
C16_CalcTimesMatchFtaCalls ==
  setups_ok > 0 =>
    LET ct == CalcTimesOf(doc)
    IN /\ Len(ct) = Len(fta_done)
       /\ Len(SumsOfProducts) >= Len(fta_done)
       /\ \A i \in 1..Len(fta_done) :
            LET sop == SumsOfProducts[i]
            IN /\ AttrOf(ct[i], "name") = fta_done[i].ft_name
               /\ AttrOf(sop, "name") = fta_done[i].ft_name
               /\ Len(KidsNamed(ct[i], "minimal-cut-set")) = 1
               /\ Len(KidsNamed(ct[i], "probability"))
                    = Count(fta_done[i].with_prob)
               /\ HasAttr(sop, "probability") <=> fta_done[i].with_prob
               /\ \A p \in 1..Len(KidsNamed(sop, "product")) :
                    HasAttr(KidsNamed(sop, "product")[p], "probability")
                      <=> fta_done[i].with_prob

\* C16 witness: three ReportFta calls, with and without a probability
\* analysis, and their three entries.
C16_Witness ==
  /\ Len(fta_done) = 3
  /\ fta_done[1].with_prob
  /\ ~fta_done[2].with_prob
  /\ fta_done[1].ft_name # fta_done[3].ft_name
  /\ Len(CalcTimesOf(doc)) = 3
  /\ KidsNamed(SumsOfProducts[1], "product") # <<>>

\* C17: an AddGate call that fails, with the error of a second definition
\* or with the error of a locked tree, leaves the top gate, the
\* intermediate gates, the primary events and the lock as they were before
\* the call.
C17_FailedAddGateChangesNothing ==
  (tree_last.op = "AddGate" /\ tree_last.outcome \in {"ValueError", "Error"})
    => tree_state = tree_prev

\* C17 witness: a second definition refused on a tree that has a top gate
\* and an intermediate gate.
C17_Witness ==
  /\ tree_last.op = "AddGate"
  /\ tree_last.outcome = "ValueError"
  /\ top_event_ # NullGate
  /\ inter_events_ # EmptyMap
  /\ tree_state = tree_prev

\* C20: a second Finalize on a finalized tree, whatever AddGate calls were
\* refused in between, returns and leaves the top gate, the intermediate
\* gates, the primary events and the lock as the first Finalize left them.
C20_FinalizeIdempotent ==
  (tree_last.op = "Finalize" /\ tree_last.after_finalize) =>
    (tree_last.outcome = "ok" /\ tree_state = finalized_state)

\* C20 witness: a tree with primary events finalized, an AddGate with a new
\* identifier refused, and the tree finalized again.
C20_Witness ==
  /\ tree_last.op = "Finalize"
  /\ tree_last.after_finalize
  /\ tree_last.outcome = "ok"
  /\ called_ids # accepted_ids
  /\ primary_events_ # EmptyMap
  /\ tree_state = finalized_state

\* C18: ReportImportance or ReportUncertainty on a set-up report without a
\* calculation-time entry is refused and leaves the document as it was, with
\* no importance or measure section under results.
C18_NoEntryNoSection ==
  (/\ rep_last.op \in {"ReportImportance", "ReportUncertainty"}
   /\ rep_last.set_up
   /\ CalcTimesOf(doc_prev) = <<>>) =>
    (rep_last.outcome \in Reported /\ doc = doc_prev)

\* C19: for a sample of any length, the empty and the one-point sample
\* included, the count attribute of the quantiles node is the number of
\* quantile entries written under it, so it is not negative.
C19_CountIsNumberOfQuantiles ==
  (rep_last.op = "ReportUncertainty" /\ rep_last.set_up) =>
    LET q == KidsNamed(LastSection, "quantiles")
    IN /\ Len(q) = 1
       /\ AttrOf(q[1], "number") = ToString(Len(q[1].kids))

====
